---- MODULE Spec2Model ----
(***************************************************************************)
(* Model of contracts/SalaryLens.sol: encrypted salary aggregation with    *)
(* verified public decryption of the average.                              *)
(*                                                                         *)
(* Every external function is one atomic action (an EVM transaction); a    *)
(* revert leaves the storage, the engine state and the event log as they   *)
(* were and is recorded in lastCall only.                                  *)
(*                                                                         *)
(* The FHE coprocessor is modelled by what the contract's calls rely on:   *)
(* a store of ciphertexts indexed by handle (ciphertexts), the ACL (acl)   *)
(* and the public-decryption flags (publiclyDecryptable).  euint32/uint32  *)
(* values are Width bits wide (the source's width is 32; the model keeps   *)
(* the wrap-around and the range check at a smaller width).                *)
(***************************************************************************)
EXTENDS Integers, Sequences, FiniteSets, TLC

\* ---- bounds of the model
NumPrincipals == 2
Width == 2
MaxRequests == 2

\* ---- constants of the program
Modulus == 2 ^ Width                \* 2^32 in the source: range of uint32 / euint32
Principals == 1 .. NumPrincipals    \* externally owned accounts (msg.sender)
Contract == 0                       \* address(this)
NoHandle == 0                       \* bytes32(0): empty pending slot, uninitialized euint32
Salaries == {0, Modulus - 1}        \* plaintexts a client encrypts: 0 and the maximum

VARIABLES
    encryptedTotal,             \* euint32 private encryptedTotal (a handle, NoHandle if uninitialized)
    count,                      \* uint32 public count
    hasSubmitted,               \* mapping(address => bool)
    lastDecryptedAverage,       \* mapping(address => uint32)
    pendingDecryptionHandles,   \* mapping(address => bytes32)
    usedHandles,                \* mapping(bytes32 => bool), as the set of handles mapped to true
    ciphertexts,                \* coprocessor: handle h is ciphertexts[h] = [op, lhs, rhs, plain]
    acl,                        \* coprocessor ACL: set of <<handle, account>> persistently allowed
    publiclyDecryptable,        \* coprocessor ACL: handles allowed for public decryption
    salarySubmittedBy,          \* event log: submitters of the SalarySubmitted events
    nAverageRequested,          \* event log: number of AverageRequested events per requester
    nAverageDecrypted,          \* event log: number of AverageDecrypted events per requester
    lastCall                    \* the last transaction: function, sender, inputs, outcome, event

Storage == <<encryptedTotal, count, hasSubmitted, lastDecryptedAverage,
             pendingDecryptionHandles, usedHandles>>
Engine == <<ciphertexts, acl, publiclyDecryptable>>
Logs == <<salarySubmittedBy, nAverageRequested, nAverageDecrypted>>
vars == <<encryptedTotal, count, hasSubmitted, lastDecryptedAverage,
          pendingDecryptionHandles, usedHandles, ciphertexts, acl,
          publiclyDecryptable, salarySubmittedBy, nAverageRequested,
          nAverageDecrypted, lastCall>>

\* ---- the FHE library as the contract uses it

\* The plaintext behind a handle (known to the coprocessor and the KMS only).
\* An uninitialized handle is read as an encryption of 0.
Plain(h) == IF h = NoHandle THEN 0 ELSE ciphertexts[h].plain

\* ACL.isAllowed(handle, account): checked by the executor on every operand.
IsAllowed(h, who) == <<h, who>> \in acl

\* A grant that flips the entry instead of setting it.
Allow_Flip(grants, h, who) ==
    IF <<h, who>> \in grants THEN grants \ {<<h, who>>} ELSE grants \cup {<<h, who>>}

\* allowThis left out: only grants to users are made.
Allow_UsersOnly(grants, h, who) ==
    IF who = Contract THEN grants ELSE grants \cup {<<h, who>>}

\* FHE.allow(handle, msg.sender) left out: only the contract is granted.
Allow_ContractOnly(grants, h, who) ==
    IF who = Contract THEN grants \cup {<<h, who>>} ELSE grants

\* A grant to a user that is also made on the running total.
Allow_AlsoOnTotal(grants, h, who) ==
    grants \cup {<<h, who>>} \cup (IF who = Contract \/ encryptedTotal = NoHandle THEN {}
                                   ELSE {<<encryptedTotal, who>>})

\* FHE.allowThis(handle) / FHE.allow(handle, account): a persistent grant.
Allow(grants, h, who) == grants \cup {<<h, who>>}

\* The flag set on the running total instead of on the average.
MakePubliclyDecryptable_Total(flags, h) == flags \cup {encryptedTotal}

\* makePubliclyDecryptable left out of requestAverageDecryption.
MakePubliclyDecryptable_Forgotten(flags, h) == flags

\* FHE.makePubliclyDecryptable(handle)
MakePubliclyDecryptable(flags, h) == flags \cup {h}

\* FHE.fromExternal: the input proof binds the ciphertext to (contract, user);
\* inputProof is the account the client library bound the input to.
InputProofValid(inputProof, sender) == inputProof = sender

\* FHE.add on euint32 wraps modulo 2^32.
FheAddPlain(a, b) == (a + b) % Modulus

\* FHE.div(euint32, uint32): integer division by a plaintext scalar; the
\* executor rejects a zero scalar.
FheDivPlain(a, b) == IF b = 0 THEN 0 ELSE a \div b

\* The handle an engine operation returns for the ciphertext record rec.  The
\* executor computes a result handle from the operation and its operands, so
\* the same operation on the same operands yields the same handle again, and
\* any other operation a handle not seen before.
ResultHandle(store, rec) ==
    IF \E h \in 1 .. Len(store) : store[h] = rec
    THEN CHOOSE h \in 1 .. Len(store) : store[h] = rec
    ELSE Len(store) + 1

\* The store after the operation returned handle h for rec.
Stored(store, rec, h) == IF h = Len(store) + 1 THEN Append(store, rec) ELSE store

\* abi.encode(uint32): one 32-byte word, as <<high 224 bits, low 32 bits>>.
AbiEncode(v) == <<0, v>>

\* abi.decode(bytes, (uint32)): reverts unless the high bits are zero.
AbiDecodable(word) == word[1] = 0
AbiDecode(word) == word[2]

\* What the relayer returns for a publicly decryptable handle: the KMS
\* signature over (handle, abi-encoded cleartext).
KmsProofs ==
    {[handle |-> h, clear |-> AbiEncode(Plain(h))] : h \in publiclyDecryptable}

\* A byte string no KMS signer produced.
ForgedProof == [handle |-> NoHandle, clear |-> <<1, 0>>]

\* FHE.checkSignatures(handlesList, abiEncodedCleartexts, decryptionProof) with
\* handlesList = [handle]: the proof is a KMS signature over exactly this
\* handle and exactly these cleartext bytes.
\* (mutation: the cleartext is not bound to the signature)
CheckSignatures_CleartextUnbound(handle, cleartexts, proof) ==
    /\ proof \in KmsProofs
    /\ proof.handle = handle
\* (mutation: the handle is not bound to the signature)
CheckSignatures_HandleUnbound(handle, cleartexts, proof) ==
    /\ proof \in KmsProofs
    /\ proof.clear = cleartexts

CheckSignatures(handle, cleartexts, proof) ==
    /\ proof \in KmsProofs
    /\ proof.handle = handle
    /\ proof.clear = cleartexts

\* ---- records of a transaction

NoEvent == [name |-> "none", who |-> Contract, arg |-> 0]

Call(op, sender, err, handle, clear, valid, signed, event) ==
    [op |-> op, sender |-> sender, err |-> err, handle |-> handle,
     clear |-> clear, valid |-> valid, signed |-> signed, event |-> event]

\* A failure signalled by an early return instead of a revert, after the
\* handle under verification was already marked as used.
Revert_AfterMarkingUsed(op, sender, err, handle, valid, signed) ==
    /\ lastCall' = Call(op, sender, err, handle, <<0, 0>>, valid, signed, NoEvent)
    /\ usedHandles' = usedHandles \cup ({handle} \ {NoHandle})
    /\ UNCHANGED <<encryptedTotal, count, hasSubmitted, lastDecryptedAverage,
                   pendingDecryptionHandles, Engine, Logs>>

\* A reverted transaction: nothing but the record of the call changes.
Revert(op, sender, err, handle, valid, signed) ==
    /\ lastCall' = Call(op, sender, err, handle, <<0, 0>>, valid, signed, NoEvent)
    /\ UNCHANGED <<Storage, Engine, Logs>>

Init ==
    /\ encryptedTotal = NoHandle
    /\ count = 0
    /\ hasSubmitted = [p \in Principals |-> FALSE]
    /\ lastDecryptedAverage = [p \in Principals |-> 0]
    /\ pendingDecryptionHandles = [p \in Principals |-> NoHandle]
    /\ usedHandles = {}
    /\ ciphertexts = <<>>
    /\ acl = {}
    /\ publiclyDecryptable = {}
    /\ salarySubmittedBy = {}
    /\ nAverageRequested = [p \in Principals |-> 0]
    /\ nAverageDecrypted = [p \in Principals |-> 0]
    /\ lastCall = Call("constructor", Contract, "none", NoHandle, <<0, 0>>, FALSE, NoHandle, NoEvent)

\* ---- the statements of the contract the actions are built from

\* if (hasSubmitted[msg.sender]) revert AlreadySubmitted();
\* (mutation: the duplicate check is left out)
AlreadySubmittedCheck_Missing(sender) == FALSE
AlreadySubmittedCheck(sender) == hasSubmitted[sender]

\* The increment done in an unchecked block.
CountOverflows_Unchecked(c) == FALSE

\* count++ (checked arithmetic: panics instead of wrapping)
CountOverflows(c) == c + 1 >= Modulus

\* The increment left out of addSalary.
IncrementCount_Forgotten(c) == c

IncrementCount(c) == c + 1

\* hasSubmitted[msg.sender] = true;
\* (mutation: the flag is not set)
MarkSubmitted_Forgotten(flags, sender) == flags
MarkSubmitted(flags, sender) == [flags EXCEPT ![sender] = TRUE]

\* The event emitted with the count read before the increment.
EmitSalarySubmitted_OldCount(sender, newCount) ==
    [name |-> "SalarySubmitted", who |-> sender, arg |-> newCount - 1]

\* emit SalarySubmitted(msg.sender, count);
EmitSalarySubmitted(sender, newCount) ==
    [name |-> "SalarySubmitted", who |-> sender, arg |-> newCount]

\* if (count == 0) revert NoSalariesSubmitted();
\* (mutation: the empty-ledger check is left out)
NoSalariesCheck_Missing == FALSE
NoSalariesCheck == count = 0

\* the scalar of FHE.div(encryptedTotal, count)
Divisor == count

\* (mutation: the handle is stored as every account's pending handle)
StorePending_AllAccounts(pending, sender, handle) ==
    [a \in DOMAIN pending |-> handle]

\* pendingDecryptionHandles[msg.sender] = handle;
StorePending(pending, sender, handle) == [pending EXCEPT ![sender] = handle]

\* (mutation: the pending handle is not checked for emptiness)
NoPendingCheck_Missing(handle) == FALSE

\* if (handle == bytes32(0)) revert NoPendingDecryption();
NoPendingCheck(handle) == handle = NoHandle

\* if (usedHandles[handle]) revert HandleAlreadyUsed();
\* (mutation: the replay check is left out)
HandleUsedCheck_Missing(handle) == FALSE
HandleUsedCheck(handle) == handle \in usedHandles

\* lastDecryptedAverage[msg.sender] = decryptedAverage;
\* (mutation: the result is stored for every account)
StoreAverage_AllAccounts(averages, sender, decryptedAverage) ==
    [a \in DOMAIN averages |-> decryptedAverage]
StoreAverage(averages, sender, decryptedAverage) ==
    [averages EXCEPT ![sender] = decryptedAverage]

\* usedHandles[handle] = true;
\* (mutation: the handle is not marked used)
MarkUsed_Forgotten(used, handle) == used
MarkUsed(used, handle) == used \cup {handle}

\* delete pendingDecryptionHandles[msg.sender];
\* (mutation: the pending request is not cleared)
ClearPending_Forgotten(pending, sender) == pending
ClearPending(pending, sender) == [pending EXCEPT ![sender] = NoHandle]

\* (mutation: FHE.fromExternal is called before the hasSubmitted check)
addSalary_ConvertsFirst(sender, encryptedSalary, inputProof) ==
    LET salary == Len(ciphertexts) + 1
        input == [op |-> "in", lhs |-> NoHandle, rhs |-> sender, plain |-> encryptedSalary]
        store1 == Append(ciphertexts, input)
        acl1 == Allow(acl, salary, Contract)
        sum == [op |-> "add", lhs |-> encryptedTotal, rhs |-> salary,
                plain |-> FheAddPlain(Plain(encryptedTotal), encryptedSalary)]
    IN
    IF ~InputProofValid(inputProof, sender)
    THEN Revert("addSalary", sender, "InvalidInputProof", NoHandle, FALSE, NoHandle)
    ELSE IF AlreadySubmittedCheck(sender)
    THEN Revert("addSalary", sender, "AlreadySubmitted", NoHandle, TRUE, NoHandle)
    ELSE IF count # 0 /\ ~(IsAllowed(encryptedTotal, Contract) /\ <<salary, Contract>> \in acl1)
    THEN Revert("addSalary", sender, "ACLNotAllowed", NoHandle, FALSE, NoHandle)
    ELSE IF CountOverflows(count)
    THEN Revert("addSalary", sender, "Panic", NoHandle, FALSE, NoHandle)
    ELSE LET total == IF count = 0 THEN salary ELSE ResultHandle(store1, sum) IN
        /\ encryptedTotal' = total
        /\ ciphertexts' = (IF count = 0 THEN store1 ELSE Stored(store1, sum, total))
        /\ count' = IncrementCount(count)
        /\ hasSubmitted' = MarkSubmitted(hasSubmitted, sender)
        /\ acl' = Allow(Allow(acl1, total, Contract), total, sender)
        /\ salarySubmittedBy' = salarySubmittedBy \cup {sender}
        /\ lastCall' = Call("addSalary", sender, "none", total, <<0, 0>>, TRUE, NoHandle,
                            EmitSalarySubmitted(sender, IncrementCount(count)))
        /\ UNCHANGED <<lastDecryptedAverage, pendingDecryptionHandles, usedHandles,
                       publiclyDecryptable, nAverageRequested, nAverageDecrypted>>

\* ---- addSalary(externalEuint32 encryptedSalary, bytes inputProof)
\* encryptedSalary stands for the plaintext the client encrypted.
addSalary(sender, encryptedSalary, inputProof) ==
    LET salary == Len(ciphertexts) + 1
        input == [op |-> "in", lhs |-> NoHandle, rhs |-> sender, plain |-> encryptedSalary]
        store1 == Append(ciphertexts, input)
        acl1 == Allow(acl, salary, Contract)
        sum == [op |-> "add", lhs |-> encryptedTotal, rhs |-> salary,
                plain |-> FheAddPlain(Plain(encryptedTotal), encryptedSalary)]
    IN
    IF AlreadySubmittedCheck(sender)
    THEN Revert("addSalary", sender, "AlreadySubmitted", NoHandle,
                InputProofValid(inputProof, sender), NoHandle)
    ELSE IF ~InputProofValid(inputProof, sender)
    THEN Revert("addSalary", sender, "InvalidInputProof", NoHandle, FALSE, NoHandle)
    ELSE IF count # 0 /\ ~(IsAllowed(encryptedTotal, Contract) /\ <<salary, Contract>> \in acl1)
    THEN Revert("addSalary", sender, "ACLNotAllowed", NoHandle, FALSE, NoHandle)
    ELSE IF CountOverflows(count)
    THEN Revert("addSalary", sender, "Panic", NoHandle, FALSE, NoHandle)
    ELSE LET total == IF count = 0 THEN salary ELSE ResultHandle(store1, sum) IN
        /\ encryptedTotal' = total
        /\ ciphertexts' = (IF count = 0 THEN store1 ELSE Stored(store1, sum, total))
        /\ count' = IncrementCount(count)
        /\ hasSubmitted' = MarkSubmitted(hasSubmitted, sender)
        /\ acl' = Allow(Allow(acl1, total, Contract), total, sender)
        /\ salarySubmittedBy' = salarySubmittedBy \cup {sender}
        /\ lastCall' = Call("addSalary", sender, "none", total, <<0, 0>>, TRUE, NoHandle,
                            EmitSalarySubmitted(sender, IncrementCount(count)))
        /\ UNCHANGED <<lastDecryptedAverage, pendingDecryptionHandles, usedHandles,
                       publiclyDecryptable, nAverageRequested, nAverageDecrypted>>

\* The number of AverageRequested events in the log.
RECURSIVE SumOver(_, _)
SumOver(f, S) ==
    IF S = {} THEN 0
    ELSE LET x == CHOOSE y \in S : TRUE IN f[x] + SumOver(f, S \ {x})

TotalRequested == SumOver(nAverageRequested, Principals)

\* (mutation: the quotient is assigned to encryptedTotal instead of a local)
requestAverageDecryption_OverwritesTotal(sender) ==
    LET avg == [op |-> "div", lhs |-> encryptedTotal, rhs |-> Divisor,
                plain |-> FheDivPlain(Plain(encryptedTotal), Divisor)]
    IN
    IF NoSalariesCheck
    THEN Revert("requestAverageDecryption", sender, "NoSalariesSubmitted", NoHandle, FALSE, NoHandle)
    ELSE IF ~IsAllowed(encryptedTotal, Contract)
    THEN Revert("requestAverageDecryption", sender, "ACLNotAllowed", NoHandle, FALSE, NoHandle)
    ELSE IF Divisor = 0
    THEN Revert("requestAverageDecryption", sender, "DivisionByZero", NoHandle, FALSE, NoHandle)
    ELSE LET handle == ResultHandle(ciphertexts, avg) IN
        /\ TotalRequested < MaxRequests
        /\ encryptedTotal' = handle
        /\ ciphertexts' = Stored(ciphertexts, avg, handle)
        /\ acl' = Allow(Allow(acl, handle, Contract), handle, sender)
        /\ publiclyDecryptable' = MakePubliclyDecryptable(publiclyDecryptable, handle)
        /\ pendingDecryptionHandles' = StorePending(pendingDecryptionHandles, sender, handle)
        /\ nAverageRequested' = [nAverageRequested EXCEPT ![sender] = @ + 1]
        /\ lastCall' = Call("requestAverageDecryption", sender, "none", handle, <<0, 0>>, TRUE, NoHandle,
                            [name |-> "AverageRequested", who |-> sender, arg |-> handle])
        /\ UNCHANGED <<count, hasSubmitted, lastDecryptedAverage,
                       usedHandles, salarySubmittedBy, nAverageDecrypted>>

\* ---- requestAverageDecryption()
requestAverageDecryption(sender) ==
    LET avg == [op |-> "div", lhs |-> encryptedTotal, rhs |-> Divisor,
                plain |-> FheDivPlain(Plain(encryptedTotal), Divisor)]
    IN
    IF NoSalariesCheck
    THEN Revert("requestAverageDecryption", sender, "NoSalariesSubmitted", NoHandle, FALSE, NoHandle)
    ELSE IF ~IsAllowed(encryptedTotal, Contract)
    THEN Revert("requestAverageDecryption", sender, "ACLNotAllowed", NoHandle, FALSE, NoHandle)
    ELSE IF Divisor = 0
    THEN Revert("requestAverageDecryption", sender, "DivisionByZero", NoHandle, FALSE, NoHandle)
    ELSE LET handle == ResultHandle(ciphertexts, avg) IN
        /\ TotalRequested < MaxRequests
        /\ ciphertexts' = Stored(ciphertexts, avg, handle)
        /\ acl' = Allow(Allow(acl, handle, Contract), handle, sender)
        /\ publiclyDecryptable' = MakePubliclyDecryptable(publiclyDecryptable, handle)
        /\ pendingDecryptionHandles' = StorePending(pendingDecryptionHandles, sender, handle)
        /\ nAverageRequested' = [nAverageRequested EXCEPT ![sender] = @ + 1]
        /\ lastCall' = Call("requestAverageDecryption", sender, "none", handle, <<0, 0>>, TRUE, NoHandle,
                            [name |-> "AverageRequested", who |-> sender, arg |-> handle])
        /\ UNCHANGED <<encryptedTotal, count, hasSubmitted, lastDecryptedAverage,
                       usedHandles, salarySubmittedBy, nAverageDecrypted>>

\* ---- verifyDecryption(bytes abiEncodedCleartexts, bytes decryptionProof)
verifyDecryption(sender, abiEncodedCleartexts, decryptionProof) ==
    LET handle == pendingDecryptionHandles[sender]
        valid == CheckSignatures(handle, abiEncodedCleartexts, decryptionProof)
        decryptedAverage == AbiDecode(abiEncodedCleartexts)
    IN
    IF NoPendingCheck(handle)
    THEN Revert("verifyDecryption", sender, "NoPendingDecryption", handle, valid, NoHandle)
    ELSE IF HandleUsedCheck(handle)
    THEN Revert("verifyDecryption", sender, "HandleAlreadyUsed", handle, valid, NoHandle)
    ELSE IF ~valid
    THEN Revert("verifyDecryption", sender, "InvalidKMSSignatures", handle, valid, decryptionProof.handle)
    ELSE IF ~AbiDecodable(abiEncodedCleartexts)
    THEN Revert("verifyDecryption", sender, "AbiDecodeError", handle, valid, decryptionProof.handle)
    ELSE
        /\ lastDecryptedAverage' = StoreAverage(lastDecryptedAverage, sender, decryptedAverage)
        /\ usedHandles' = MarkUsed(usedHandles, handle)
        /\ pendingDecryptionHandles' = ClearPending(pendingDecryptionHandles, sender)
        /\ nAverageDecrypted' = [nAverageDecrypted EXCEPT ![sender] = @ + 1]
        /\ lastCall' = Call("verifyDecryption", sender, "none", handle, abiEncodedCleartexts, valid,
                            decryptionProof.handle,
                            [name |-> "AverageDecrypted", who |-> sender, arg |-> decryptedAverage])
        /\ UNCHANGED <<encryptedTotal, count, hasSubmitted, Engine,
                       salarySubmittedBy, nAverageRequested>>

\* The input proofs a caller may present with a ciphertext: the one the client
\* library bound to the caller, and one bound to another account.
InputProofs(sender) == {sender, (sender % NumPrincipals) + 1}

\* The (cleartext bytes, proof) pairs a caller may present: for any publicly
\* decryptable handle what the relayer returned for it and the same with the
\* value altered, and a cleartext outside the uint32 range under a proof no
\* KMS signer produced.
VerifyInputs ==
    {<<p.clear, p>> : p \in KmsProofs}
        \cup {<<AbiEncode((AbiDecode(p.clear) + 1) % Modulus), p>> : p \in KmsProofs}
        \cup {<<ForgedProof.clear, ForgedProof>>}

Next ==
    \/ \E sender \in Principals, v \in Salaries :
           \E proof \in InputProofs(sender) : addSalary(sender, v, proof)
    \/ \E sender \in Principals : requestAverageDecryption(sender)
    \/ \E sender \in Principals, in \in VerifyInputs :
           verifyDecryption(sender, in[1], in[2])

Spec == Init /\ [][Next]_vars

\* An account that is none of Principals.
OtherAccount == NumPrincipals + 1

\* The ledger after Modulus - 2 accounts other than Principals have submitted,
\* the last of them OtherAccount: two more submissions bring count to the
\* largest value its type holds. Handle 1 stands for the total of their values.
InitNearMax ==
    \E t \in Salaries :
        /\ encryptedTotal = 1
        /\ count = Modulus - 2
        /\ hasSubmitted = [p \in Principals |-> FALSE]
        /\ lastDecryptedAverage = [p \in Principals |-> 0]
        /\ pendingDecryptionHandles = [p \in Principals |-> NoHandle]
        /\ usedHandles = {}
        /\ ciphertexts = <<[op |-> "add", lhs |-> NoHandle, rhs |-> NoHandle, plain |-> t]>>
        /\ acl = Allow(Allow({}, 1, Contract), 1, OtherAccount)
        /\ publiclyDecryptable = {}
        /\ salarySubmittedBy = {}
        /\ nAverageRequested = [p \in Principals |-> 0]
        /\ nAverageDecrypted = [p \in Principals |-> 0]
        /\ lastCall = Call("addSalary", OtherAccount, "none", 1, <<0, 0>>, TRUE, NoHandle,
                           EmitSalarySubmitted(OtherAccount, Modulus - 2))

\* The same contract, started close to the largest count.
SpecNearMax == InitNearMax /\ [][Next]_vars

\* ======================================================================
\* Properties
\* ======================================================================

\* The transaction recorded in lastCall, by function and outcome.
Succeeded(call, op) == call.op = op /\ call.err = "none"
Failed(call, op, err) == call.op = op /\ call.err = err

Submitted == {p \in Principals : hasSubmitted[p]}

\* C1: after any sequence of calls, successful or failed, getCount() is the
\* number of principals with hasSubmitted = true, and hasSubmitted is true
\* exactly for the principals that completed a successful submit (those with a
\* SalarySubmitted event).
C1_CountMatchesSubmitters ==
    /\ count = Cardinality(Submitted)
    /\ Submitted = salarySubmittedBy

\* C1 witness: every principal has submitted and the last call was a failed one.
C1_Witness ==
    /\ count = NumPrincipals
    /\ lastCall.err \notin {"none"}
    /\ lastCall.op = "verifyDecryption"

\* C2: a submit by a principal whose flag is already true fails with
\* AlreadySubmitted and leaves count unchanged; a successful submit is always
\* by a principal whose flag was false (so at most one per principal); a flag
\* once true is never reset.
C2_ExactlyOnceSubmission ==
    [][\A p \in Principals :
          /\ hasSubmitted[p] => hasSubmitted'[p]
          /\ (lastCall'.op = "addSalary" /\ lastCall'.sender = p /\ hasSubmitted[p])
                => (lastCall'.err = "AlreadySubmitted" /\ count' = count)
          /\ (Succeeded(lastCall', "addSalary") /\ lastCall'.sender = p)
                => (~hasSubmitted[p] /\ hasSubmitted'[p])]_vars

\* C2 witness: a second submit by a principal was rejected after two submissions.
C2_Witness ==
    /\ Failed(lastCall, "addSalary", "AlreadySubmitted")
    /\ hasSubmitted[lastCall.sender]
    /\ count = 2

\* C3: requestAverage succeeds exactly when count > 0; with count = 0 it fails
\* with NoSalariesSubmitted and records no pending handle; the division the
\* engine performs has the current count as its scalar and the current total as
\* its operand, and no division by 0 is ever recorded.
C3_RequestIffCountPositive ==
    [][/\ lastCall'.op = "requestAverageDecryption" =>
             /\ (lastCall'.err = "none") <=> (count > 0)
             /\ count = 0 =>
                   /\ lastCall'.err = "NoSalariesSubmitted"
                   /\ pendingDecryptionHandles' = pendingDecryptionHandles
                   /\ ciphertexts' = ciphertexts
             /\ lastCall'.err = "none" =>
                   /\ ciphertexts'[lastCall'.handle].op = "div"
                   /\ ciphertexts'[lastCall'.handle].rhs = count
                   /\ ciphertexts'[lastCall'.handle].lhs = encryptedTotal
                   /\ pendingDecryptionHandles'[lastCall'.sender] = lastCall'.handle
       /\ \A h \in DOMAIN ciphertexts' :
             ciphertexts'[h].op = "div" => ciphertexts'[h].rhs > 0]_vars

\* C3 witness: a principal that never submitted obtained an average handle.
C3_Witness ==
    /\ Succeeded(lastCall, "requestAverageDecryption")
    /\ ~hasSubmitted[lastCall.sender]
    /\ pendingDecryptionHandles[lastCall.sender] = lastCall.handle
    /\ lastCall.handle # NoHandle

\* C4: when the requester's pending handle is already in usedHandles,
\* verifyDecryption fails with HandleAlreadyUsed, whatever the cleartext and
\* proof, and lastDecryptedAverage, the pending handles and usedHandles are
\* unchanged.
C4_ReplayRejected ==
    [][\A r \in Principals :
          (/\ lastCall'.op = "verifyDecryption"
           /\ lastCall'.sender = r
           /\ pendingDecryptionHandles[r] # NoHandle
           /\ pendingDecryptionHandles[r] \in usedHandles)
          => /\ lastCall'.err = "HandleAlreadyUsed"
             /\ lastDecryptedAverage' = lastDecryptedAverage
             /\ pendingDecryptionHandles' = pendingDecryptionHandles
             /\ usedHandles' = usedHandles]_vars

\* C4 witness: a cleartext and proof valid for the pending handle were rejected
\* because the handle had been consumed.
C4_Witness ==
    /\ Failed(lastCall, "verifyDecryption", "HandleAlreadyUsed")
    /\ lastCall.valid
    /\ lastCall.handle \in usedHandles
    /\ pendingDecryptionHandles[lastCall.sender] = lastCall.handle

\* C5: a verifyDecryption succeeds only for a handle not yet in usedHandles and
\* puts it there; usedHandles only grows.  Hence at most one verification ever
\* succeeds per handle.
C5_ExactlyOnceConsumption ==
    [][/\ usedHandles \subseteq usedHandles'
       /\ Succeeded(lastCall', "verifyDecryption") =>
             /\ lastCall'.handle = pendingDecryptionHandles[lastCall'.sender]
             /\ lastCall'.handle \notin usedHandles
             /\ lastCall'.handle \in usedHandles'
       /\ usedHandles' # usedHandles =>
             /\ Succeeded(lastCall', "verifyDecryption")
             /\ usedHandles' = usedHandles \cup {lastCall'.handle}]_vars

\* C5 witness: a handle was consumed while another requester still holds it as
\* its pending handle.
C5_Witness ==
    /\ Succeeded(lastCall, "verifyDecryption")
    /\ \E r \in Principals :
          /\ r # lastCall.sender
          /\ pendingDecryptionHandles[r] = lastCall.handle

\* C6 (as claimed): a verifyDecryption whose cleartext/proof pair does not
\* validate against the requester's pending handle fails with the contract's
\* InvalidDecryptionProof error and leaves the pending handles,
\* lastDecryptedAverage and usedHandles unchanged.
C6_TamperFailsWithInvalidDecryptionProof ==
    [][\A r \in Principals :
          (/\ lastCall'.op = "verifyDecryption"
           /\ lastCall'.sender = r
           /\ pendingDecryptionHandles[r] # NoHandle
           /\ ~lastCall'.valid)
          => /\ lastCall'.err = "InvalidDecryptionProof"
             /\ pendingDecryptionHandles' = pendingDecryptionHandles
             /\ lastDecryptedAverage' = lastDecryptedAverage
             /\ usedHandles' = usedHandles]_vars

\* C7: getLastAverage(r) is 0 in every state before r's first successful
\* verifyDecryption (no AverageDecrypted event for r yet), and after each
\* successful verifyDecryption by r it is the value in the low 32 bits of the
\* cleartext word of that call.
C7_LastAverageOnlyAfterVerification ==
    [][\A r \in Principals :
          /\ nAverageDecrypted[r] = 0 => lastDecryptedAverage[r] = 0
          /\ nAverageDecrypted'[r] = 0 => lastDecryptedAverage'[r] = 0
          /\ (Succeeded(lastCall', "verifyDecryption") /\ lastCall'.sender = r)
                => /\ lastCall'.clear[1] = 0
                   /\ lastDecryptedAverage'[r] = lastCall'.clear[2]
                   /\ nAverageDecrypted'[r] = nAverageDecrypted[r] + 1]_vars

\* C7 witness: a requester's verification stored a non-zero average while
\* another principal, with a request pending, still reads 0.
C7_Witness ==
    /\ Succeeded(lastCall, "verifyDecryption")
    /\ lastDecryptedAverage[lastCall.sender] # 0
    /\ \E r \in Principals :
          /\ nAverageRequested[r] > 0
          /\ nAverageDecrypted[r] = 0
          /\ lastDecryptedAverage[r] = 0

\* The average handles requestAverageDecryption has returned to r: the results
\* of a division on which r was allowed (only requestAverageDecryption divides,
\* and it allows its caller on the result).
HandlesReturnedTo(r) ==
    {h \in DOMAIN ciphertexts : ciphertexts[h].op = "div" /\ IsAllowed(h, r)}

\* C8: lastDecryptedAverage[r] changes only in a successful verifyDecryption by
\* r whose cleartext is the encoding of the true plaintext of r's pending,
\* publicly decryptable handle; in every state it is 0 or the plaintext of a
\* handle that requestAverageDecryption returned to r.
C8_AuthenticatedResult ==
    [][\A r \in Principals :
          /\ lastDecryptedAverage'[r] # lastDecryptedAverage[r] =>
                /\ Succeeded(lastCall', "verifyDecryption")
                /\ lastCall'.sender = r
                /\ lastCall'.handle = pendingDecryptionHandles[r]
                /\ lastCall'.handle \in publiclyDecryptable
                /\ lastCall'.clear = AbiEncode(Plain(lastCall'.handle))
          /\ \/ lastDecryptedAverage[r] = 0
             \/ \E h \in HandlesReturnedTo(r) : Plain(h) = lastDecryptedAverage[r]
          /\ \/ lastDecryptedAverage'[r] = 0
             \/ \E h \in HandlesReturnedTo(r)' : Plain(h)' = lastDecryptedAverage'[r]]_vars

\* C8 witness: r holds a verified non-zero average and a newer pending handle
\* whose plaintext differs from it.
C8_Witness ==
    \E r \in Principals :
        /\ lastDecryptedAverage[r] # 0
        /\ pendingDecryptionHandles[r] # NoHandle
        /\ Plain(pendingDecryptionHandles[r]) # lastDecryptedAverage[r]

\* The sum, as an unbounded integer, of the plaintexts of the accepted inputs.
RECURSIVE SumOfInputs(_)
SumOfInputs(n) ==
    IF n = 0 THEN 0
    ELSE (IF ciphertexts[n].op = "in" THEN ciphertexts[n].plain ELSE 0) + SumOfInputs(n - 1)

\* C9 (as claimed): the plaintext of the handle requestAverage returns is the
\* integer quotient of the sum of all submitted values by their number.
C9_AverageIsQuotientOfSum ==
    Succeeded(lastCall, "requestAverageDecryption") =>
        Plain(lastCall.handle) = SumOfInputs(Len(ciphertexts)) \div count

\* C10: a successful verifyDecryption by r needs a pending handle and clears
\* it; a verifyDecryption by r with no pending handle fails with
\* NoPendingDecryption; r's pending slot is filled only by r's own successful
\* requestAverage; so r's successful verifications never outnumber r's
\* successful requests.
C10_PerRequesterStateMachine ==
    [][\A r \in Principals :
          /\ (Succeeded(lastCall', "verifyDecryption") /\ lastCall'.sender = r)
                => /\ pendingDecryptionHandles[r] # NoHandle
                   /\ pendingDecryptionHandles'[r] = NoHandle
          /\ (/\ lastCall'.op = "verifyDecryption"
              /\ lastCall'.sender = r
              /\ pendingDecryptionHandles[r] = NoHandle)
                => /\ lastCall'.err = "NoPendingDecryption"
                   /\ pendingDecryptionHandles'[r] = NoHandle
          /\ (pendingDecryptionHandles[r] = NoHandle /\ pendingDecryptionHandles'[r] # NoHandle)
                => (Succeeded(lastCall', "requestAverageDecryption") /\ lastCall'.sender = r)
          /\ nAverageDecrypted'[r] <= nAverageRequested'[r]]_vars

\* C10 witness: after its only request was verified, r's second verification
\* was rejected for want of a pending request.
C10_Witness ==
    /\ Failed(lastCall, "verifyDecryption", "NoPendingDecryption")
    /\ nAverageDecrypted[lastCall.sender] = 1
    /\ nAverageRequested[lastCall.sender] = 1

\* C11 (as claimed): whenever requester r has a pending handle, a
\* verifyDecryption by r that presents the cleartext and KMS proof of that
\* handle succeeds, clears r's pending handle and records the result, whatever
\* calls failed before it.
C11_ValidPairCompletesPending ==
    [][\A r \in Principals :
          (/\ lastCall'.op = "verifyDecryption"
           /\ lastCall'.sender = r
           /\ pendingDecryptionHandles[r] # NoHandle
           /\ lastCall'.valid)
             => /\ lastCall'.err = "none"
                /\ pendingDecryptionHandles'[r] = NoHandle
                /\ lastDecryptedAverage'[r] = Plain(pendingDecryptionHandles[r])]_vars

\* C12: a call that fails, with whatever error, leaves count, hasSubmitted,
\* encryptedTotal, every pending handle, every last average, usedHandles, the
\* permission and public-decryption entries and the ciphertext store as they
\* were and emits no event; a submit either performs all of its writes (value
\* accepted, total replaced and granted to the contract and the sender, count
\* incremented, flag set, event emitted) or none of them.
C12_FailedCallsChangeNothing ==
    [][/\ lastCall'.err # "none"
            => /\ UNCHANGED <<Storage, Engine, Logs>>
               /\ lastCall'.event = NoEvent
       /\ lastCall'.op = "addSalary"
            => \/ /\ lastCall'.err = "none"
                  /\ count' = count + 1
                  /\ ~hasSubmitted[lastCall'.sender]
                  /\ hasSubmitted'[lastCall'.sender]
                  /\ encryptedTotal' # encryptedTotal
                  /\ encryptedTotal' = lastCall'.handle
                  /\ <<encryptedTotal', Contract>> \in acl'
                  /\ <<encryptedTotal', lastCall'.sender>> \in acl'
                  /\ lastCall'.event.name = "SalarySubmitted"
               \/ /\ lastCall'.err \in {"AlreadySubmitted", "InvalidInputProof"}
                  /\ UNCHANGED <<Storage, Engine, Logs>>
       /\ lastCall'.op = "requestAverageDecryption"
            => lastCall'.err \in {"none", "NoSalariesSubmitted"}
       /\ lastCall'.op = "verifyDecryption"
            => lastCall'.err \in {"none", "NoPendingDecryption", "HandleAlreadyUsed",
                                  "InvalidKMSSignatures"}]_vars

\* C12 witness: a submit with an input proof bound to another account failed
\* in a state where a total, a pending request and a consumed handle exist.
C12_Witness ==
    /\ Failed(lastCall, "addSalary", "InvalidInputProof")
    /\ count = 1
    /\ usedHandles # {}
    /\ \E r \in Principals : pendingDecryptionHandles[r] # NoHandle

\* The accepted inputs: the handles FHE.fromExternal returned, one per submitter.
InputHandles == {i \in DOMAIN ciphertexts : ciphertexts[i].op = "in"}

\* C13 (as claimed): whatever the count, no publicly decryptable handle
\* decrypts to exactly the value one participant submitted, that is, none is
\* computed from a single participant's input alone.
C13_NoIndividualValuePublished ==
    \A h \in publiclyDecryptable :
        \A i \in InputHandles :
            ~(ciphertexts[h].lhs = i /\ Plain(h) = Plain(i))

\* The handles FHE.div returned.
AverageHandles == {h \in DOMAIN ciphertexts : ciphertexts[h].op = "div"}

\* C14: the publicly decryptable handles are exactly the handles FHE.div
\* produced, each of them in a successful requestAverageDecryption that
\* returned it; no input handle and no total is ever among them; every add and
\* div takes the current encryptedTotal as its operand, and a handle that
\* stopped being encryptedTotal never becomes it again.
C14_OnlyAverageHandlesDecryptable ==
    [][/\ publiclyDecryptable' = AverageHandles'
       /\ \A h \in publiclyDecryptable' : h # encryptedTotal' /\ h \notin InputHandles'
       /\ \A h \in DOMAIN ciphertexts' \ DOMAIN ciphertexts :
              /\ ciphertexts'[h].op = "div"
                    => (Succeeded(lastCall', "requestAverageDecryption") /\ lastCall'.handle = h)
              /\ ciphertexts'[h].op \in {"add", "div"}
                    => (encryptedTotal # NoHandle /\ ciphertexts'[h].lhs = encryptedTotal)
       /\ Succeeded(lastCall', "requestAverageDecryption")
              => /\ lastCall'.handle \in AverageHandles'
                 /\ ciphertexts'[lastCall'.handle].lhs = encryptedTotal
       /\ encryptedTotal' # encryptedTotal => encryptedTotal' \notin DOMAIN ciphertexts]_vars

\* C14 witness: the average of a superseded total and the average of the
\* current total are both published, after two submissions.
C14_Witness ==
    /\ count = 2
    /\ Cardinality(publiclyDecryptable) = 2
    /\ \E h \in publiclyDecryptable : ciphertexts[h].lhs # encryptedTotal
    /\ \E h \in publiclyDecryptable : ciphertexts[h].lhs = encryptedTotal

C16_PermissionBeforeUse ==
    [][/\ \A h \in DOMAIN ciphertexts' \ DOMAIN ciphertexts :
              /\ ciphertexts'[h].op = "add"
                    => /\ count # 0
                       /\ encryptedTotal # NoHandle
                       /\ ciphertexts'[h].lhs = encryptedTotal
                       /\ <<encryptedTotal, Contract>> \in acl
                       /\ ciphertexts'[h].rhs \in InputHandles'
                       /\ <<ciphertexts'[h].rhs, Contract>> \in acl'
              /\ ciphertexts'[h].op = "div"
                    => /\ ciphertexts'[h].lhs # NoHandle
                       /\ <<ciphertexts'[h].lhs, Contract>> \in acl
       /\ (Succeeded(lastCall', "addSalary") /\ count = 0)
              => /\ Len(ciphertexts') = Len(ciphertexts) + 1
                 /\ ciphertexts'[Len(ciphertexts')].op = "in"
       /\ Succeeded(lastCall', "requestAverageDecryption")
              => (encryptedTotal # NoHandle /\ <<encryptedTotal, Contract>> \in acl)
       /\ lastCall'.err \notin {"ACLNotAllowed", "DivisionByZero"}]_vars

\* C16 witness: the average of a total that FHE.add produced was requested.
C16_Witness ==
    /\ Succeeded(lastCall, "requestAverageDecryption")
    /\ ciphertexts[lastCall.handle].lhs = encryptedTotal
    /\ ciphertexts[encryptedTotal].op = "add"
    /\ <<encryptedTotal, Contract>> \in acl

\* C17: a successful addSalary emits one SalarySubmitted event that carries
\* the sender and the count after the increment, which is the number of
\* successful submissions so far, this one included; a failed addSalary emits
\* nothing, and no other call emits SalarySubmitted.
C17_SalarySubmittedCarriesNewCount ==
    [][/\ Succeeded(lastCall', "addSalary")
              => /\ lastCall'.event = [name |-> "SalarySubmitted",
                                       who |-> lastCall'.sender, arg |-> count']
                 /\ count' = count + 1
                 /\ lastCall'.event.arg = Cardinality(salarySubmittedBy) + 1
                 /\ salarySubmittedBy' = salarySubmittedBy \cup {lastCall'.sender}
                 /\ lastCall'.sender \notin salarySubmittedBy
       /\ (lastCall'.op = "addSalary" /\ lastCall'.err # "none")
              => /\ lastCall'.event = NoEvent
                 /\ salarySubmittedBy' = salarySubmittedBy
       /\ lastCall'.event.name = "SalarySubmitted"
              => Succeeded(lastCall', "addSalary")]_vars

\* C17 witness: the second successful submission emitted SalarySubmitted with 2.
C17_Witness ==
    /\ Succeeded(lastCall, "addSalary")
    /\ lastCall.event.name = "SalarySubmitted"
    /\ lastCall.event.arg = 2
    /\ Cardinality(salarySubmittedBy) = 2

\* C18: after construction count is 0, encryptedTotal is uninitialized, no
\* principal has submitted, no handle is pending and every last average is 0;
\* in every state count is 0 exactly when encryptedTotal is uninitialized.
C18_TotalInitializedIffCountPositive ==
    /\ lastCall.op = "constructor"
          => /\ count = 0
             /\ encryptedTotal = NoHandle
             /\ \A p \in Principals :
                    /\ ~hasSubmitted[p]
                    /\ pendingDecryptionHandles[p] = NoHandle
                    /\ lastDecryptedAverage[p] = 0
    /\ (count = 0) <=> (encryptedTotal = NoHandle)

\* C18 witness: two values were submitted, the total is the handle of their
\* sum, and an average has been verified since.
C18_Witness ==
    /\ count = 2
    /\ encryptedTotal \in DOMAIN ciphertexts
    /\ ciphertexts[encryptedTotal].op = "add"
    /\ Succeeded(lastCall, "verifyDecryption")

\* C19: count never decreases and never leaves the range of its type; only a
\* successful addSalary changes it, by exactly one; an addSalary made when
\* count is the largest value of the type fails and changes nothing.
C19_CountIncreasesByOneNeverWraps ==
    [][/\ count' >= count
       /\ count' < Modulus
       /\ count' # count => Succeeded(lastCall', "addSalary")
       /\ Succeeded(lastCall', "addSalary") => count' = count + 1
       /\ (lastCall'.op = "addSalary" /\ count = Modulus - 1)
              => /\ lastCall'.err # "none"
                 /\ UNCHANGED <<Storage, Engine, Logs>>]_vars

\* C19 witness: with count at the largest value, a submission by an account
\* that had not submitted, with a good input proof, was rejected by the
\* overflow check.
C19_Witness ==
    /\ Failed(lastCall, "addSalary", "Panic")
    /\ count = Modulus - 1
    /\ ~hasSubmitted[lastCall.sender]

\* The handles earlier requests returned to r that r's pending slot no longer
\* holds.
StaleHandles(r) == HandlesReturnedTo(r) \ {pendingDecryptionHandles[r]}

\* C20 (as claimed): a verifyDecryption by r, who has a pending handle, that
\* presents the KMS proof of a handle an earlier request of r returned and a
\* later request replaced, is rejected with HandleAlreadyUsed or
\* NoPendingDecryption.
C20_StaleProofRejectedByGuards ==
    [][\A r \in Principals :
          (/\ lastCall'.op = "verifyDecryption"
           /\ lastCall'.sender = r
           /\ pendingDecryptionHandles[r] # NoHandle
           /\ lastCall'.signed \in StaleHandles(r))
             => lastCall'.err \in {"HandleAlreadyUsed", "NoPendingDecryption"}]_vars

\* C20 (amended): r has one pending slot and a successful
\* requestAverageDecryption by r puts the returned handle in it, whatever it
\* held; while r's slot is filled, a verifyDecryption by r whose pair is not
\* valid for the handle in the slot fails and changes nothing: with
\* HandleAlreadyUsed when that handle was already consumed, otherwise in
\* FHE.checkSignatures, and that is where the proof of a replaced handle is
\* rejected; never with NoPendingDecryption.
C20_StaleProofRejectedBySignatureCheck ==
    [][\A r \in Principals :
          /\ (Succeeded(lastCall', "requestAverageDecryption") /\ lastCall'.sender = r)
                => pendingDecryptionHandles'[r] = lastCall'.handle
          /\ (/\ lastCall'.op = "verifyDecryption"
              /\ lastCall'.sender = r
              /\ pendingDecryptionHandles[r] # NoHandle
              /\ ~lastCall'.valid)
                => /\ lastCall'.err = (IF pendingDecryptionHandles[r] \in usedHandles
                                       THEN "HandleAlreadyUsed"
                                       ELSE "InvalidKMSSignatures")
                   /\ UNCHANGED <<Storage, Engine, Logs>>
          /\ (/\ lastCall'.op = "verifyDecryption"
              /\ lastCall'.sender = r
              /\ lastCall'.signed \in StaleHandles(r))
                => /\ lastCall'.err = "InvalidKMSSignatures"
                   /\ UNCHANGED <<Storage, Engine, Logs>>]_vars

\* C20 witness: r requested twice without verifying, a submission in between
\* having changed the total; r then presented the KMS proof of the first
\* handle and the signature check rejected it.
C20_Witness ==
    /\ Failed(lastCall, "verifyDecryption", "InvalidKMSSignatures")
    /\ nAverageRequested[lastCall.sender] = 2
    /\ nAverageDecrypted[lastCall.sender] = 0
    /\ pendingDecryptionHandles[lastCall.sender] # NoHandle
    /\ lastCall.signed \in StaleHandles(lastCall.sender)
    /\ lastCall.signed \notin usedHandles

\* C21: verifyDecryption reports the first check that fails, in the order no
\* pending handle, handle already used, proof: with no pending handle it
\* fails with NoPendingDecryption whatever is presented; with a pending handle
\* that is in usedHandles it fails with HandleAlreadyUsed whether or not the
\* pair presented is valid; the signature check decides only when the
\* caller has a pending handle that is not in usedHandles.
C21_VerifyChecksInOrder ==
    [][\A r \in Principals :
          (lastCall'.op = "verifyDecryption" /\ lastCall'.sender = r)
             => /\ pendingDecryptionHandles[r] = NoHandle
                      => lastCall'.err = "NoPendingDecryption"
                /\ (/\ pendingDecryptionHandles[r] # NoHandle
                    /\ pendingDecryptionHandles[r] \in usedHandles)
                      => lastCall'.err = "HandleAlreadyUsed"
                /\ lastCall'.err \in {"none", "InvalidKMSSignatures"}
                      => /\ pendingDecryptionHandles[r] # NoHandle
                         /\ pendingDecryptionHandles[r] \notin usedHandles
                         /\ (lastCall'.err = "none") <=> lastCall'.valid]_vars

\* C21 witness: a caller whose pending handle was already consumed presented
\* a pair that is not valid for it and was told HandleAlreadyUsed.
C21_Witness ==
    /\ Failed(lastCall, "verifyDecryption", "HandleAlreadyUsed")
    /\ ~lastCall.valid
    /\ pendingDecryptionHandles[lastCall.sender] \in usedHandles

\* C22: an addSalary by a principal that has already submitted fails with
\* AlreadySubmitted whether or not its input proof is valid, and leaves the
\* ciphertext store and the permissions as they were: the input is never
\* converted for such a call.
C22_AlreadySubmittedBeforeConversion ==
    [][\A p \in Principals :
          (lastCall'.op = "addSalary" /\ lastCall'.sender = p /\ hasSubmitted[p])
             => /\ lastCall'.err = "AlreadySubmitted"
                /\ lastCall'.handle = NoHandle
                /\ ciphertexts' = ciphertexts
                /\ acl' = acl
                /\ InputHandles' = InputHandles]_vars

\* C22 witness: a principal that had submitted called addSalary with an input
\* proof bound to another account and was told AlreadySubmitted.
C22_Witness ==
    /\ Failed(lastCall, "addSalary", "AlreadySubmitted")
    /\ hasSubmitted[lastCall.sender]
    /\ ~lastCall.valid

\* C23: right after a successful requestAverageDecryption by r, r's pending
\* handle is non-empty and is the handle returned and the handle in the
\* AverageRequested event, and the contract and r are both allowed on it; in
\* every state every non-empty pending handle and every handle in usedHandles
\* is publicly decryptable.
C23_PendingHandleIsPublishedAverage ==
    /\ Succeeded(lastCall, "requestAverageDecryption")
          => /\ pendingDecryptionHandles[lastCall.sender] # NoHandle
             /\ pendingDecryptionHandles[lastCall.sender] = lastCall.handle
             /\ lastCall.event = [name |-> "AverageRequested", who |-> lastCall.sender,
                                  arg |-> lastCall.handle]
             /\ IsAllowed(lastCall.handle, Contract)
             /\ IsAllowed(lastCall.handle, lastCall.sender)
    /\ \A r \in Principals :
          pendingDecryptionHandles[r] # NoHandle
             => pendingDecryptionHandles[r] \in publiclyDecryptable
    /\ usedHandles \subseteq publiclyDecryptable

\* C23 witness: one average has been verified and a requester holds a pending
\* handle for a later one.
C23_Witness ==
    /\ Succeeded(lastCall, "requestAverageDecryption")
    /\ usedHandles # {}
    /\ lastCall.handle \notin usedHandles
    /\ pendingDecryptionHandles[lastCall.sender] = lastCall.handle

\* C24: right after a successful addSalary by p the contract and p are both
\* allowed on the handle encryptedTotal now holds; in every state with
\* count > 0 the contract is allowed on the current encryptedTotal.
C24_TotalPermitted ==
    /\ Succeeded(lastCall, "addSalary")
          => /\ lastCall.handle = encryptedTotal
             /\ IsAllowed(encryptedTotal, Contract)
             /\ IsAllowed(encryptedTotal, lastCall.sender)
    /\ count > 0
          => /\ encryptedTotal # NoHandle
             /\ IsAllowed(encryptedTotal, Contract)

\* C24 witness: after the second submission, later calls have been made and
\* the total is still the sum handle the contract is allowed on.
C24_Witness ==
    /\ count = 2
    /\ ciphertexts[encryptedTotal].op = "add"
    /\ IsAllowed(encryptedTotal, Contract)
    /\ lastCall.op = "requestAverageDecryption"

\* C25: r's pending handle and r's last average change only in r's own
\* calls: the pending handle is set or replaced only by r's successful
\* requestAverageDecryption, to the handle returned, and emptied only by r's
\* successful verifyDecryption, which alone changes r's last average; an
\* addSalary by anyone and any call by another principal leave both as they
\* were, so a pending request stays until r replaces or consumes it.
C25_PendingAndAverageOwnedByRequester ==
    [][\A r \in Principals :
          /\ pendingDecryptionHandles'[r] # pendingDecryptionHandles[r]
                => /\ lastCall'.sender = r
                   /\ IF pendingDecryptionHandles'[r] = NoHandle
                      THEN Succeeded(lastCall', "verifyDecryption")
                      ELSE /\ Succeeded(lastCall', "requestAverageDecryption")
                           /\ pendingDecryptionHandles'[r] = lastCall'.handle
          /\ lastDecryptedAverage'[r] # lastDecryptedAverage[r]
                => (Succeeded(lastCall', "verifyDecryption") /\ lastCall'.sender = r)
          /\ (lastCall'.sender # r \/ lastCall'.op = "addSalary" \/ lastCall'.err # "none")
                => /\ pendingDecryptionHandles'[r] = pendingDecryptionHandles[r]
                   /\ lastDecryptedAverage'[r] = lastDecryptedAverage[r]]_vars

\* C25 witness: r's pending request is still in place when another principal
\* has just had its own request accepted, for a different handle, after a
\* submission that followed r's request.
C25_Witness ==
    \E r \in Principals :
        /\ pendingDecryptionHandles[r] # NoHandle
        /\ lastCall.sender # r
        /\ Succeeded(lastCall, "requestAverageDecryption")
        /\ lastCall.handle # pendingDecryptionHandles[r]
        /\ ciphertexts[pendingDecryptionHandles[r]].rhs < count

\* C26: requestAverageDecryption and verifyDecryption, successful or not,
\* leave count, encryptedTotal and every hasSubmitted flag as they were;
\* addSalary, successful or not, leaves every pending handle, every last
\* average and usedHandles as they were.
C26_AggregateWrittenOnlyBySubmit ==
    [][/\ lastCall'.op \in {"requestAverageDecryption", "verifyDecryption"}
              => /\ count' = count
                 /\ encryptedTotal' = encryptedTotal
                 /\ hasSubmitted' = hasSubmitted
       /\ lastCall'.op = "addSalary"
              => /\ pendingDecryptionHandles' = pendingDecryptionHandles
                 /\ lastDecryptedAverage' = lastDecryptedAverage
                 /\ usedHandles' = usedHandles]_vars

\* C26 witness: a submission was accepted while a request was pending and a
\* handle had been consumed; the total it produced is a sum.
C26_Witness ==
    /\ Succeeded(lastCall, "addSalary")
    /\ ciphertexts[encryptedTotal].op = "add"
    /\ usedHandles # {}
    /\ \E r \in Principals : pendingDecryptionHandles[r] # NoHandle
    /\ \E r \in Principals : lastDecryptedAverage[r] # 0

\* C27 (as claimed): when r1 and r2 both hold a pending handle and r2's could
\* still be verified, a successful verifyDecryption by r1 leaves r2's so: r2's
\* pending handle is not in usedHandles afterwards, so that a later
\* verifyDecryption by r2 with the pair valid for it is not refused.
C27_VerificationLeavesOthersVerifiable ==
    [][\A r1, r2 \in Principals :
          (/\ r1 # r2
           /\ Succeeded(lastCall', "verifyDecryption")
           /\ lastCall'.sender = r1
           /\ pendingDecryptionHandles[r2] # NoHandle
           /\ pendingDecryptionHandles[r2] \notin usedHandles)
             => /\ pendingDecryptionHandles'[r2] = pendingDecryptionHandles[r2]
                /\ pendingDecryptionHandles'[r2] \notin usedHandles']_vars

\* C28 (as claimed): no requester's non-empty pending handle is in
\* usedHandles.
C28_PendingHandleNeverUsed ==
    \A r \in Principals :
        pendingDecryptionHandles[r] # NoHandle
            => pendingDecryptionHandles[r] \notin usedHandles

\* The average r's pending handle was computed as: the total at the time of the
\* request divided by the count at that time.
AverageAtRequest(h) == FheDivPlain(Plain(ciphertexts[h].lhs), ciphertexts[h].rhs)

\* C29 (as claimed): an addSalary leaves every pending handle as it was, and
\* when submissions were accepted after r's request (the count is now larger
\* than the divisor of r's pending handle), a verifyDecryption by r with the
\* pair valid for that handle succeeds and records the average as of the
\* request.
C29_SubmitDoesNotInvalidateRequest ==
    [][\A r \in Principals :
          /\ lastCall'.op = "addSalary"
                => pendingDecryptionHandles'[r] = pendingDecryptionHandles[r]
          /\ (/\ lastCall'.op = "verifyDecryption"
              /\ lastCall'.sender = r
              /\ pendingDecryptionHandles[r] # NoHandle
              /\ ciphertexts[pendingDecryptionHandles[r]].rhs < count
              /\ lastCall'.valid)
                => /\ lastCall'.err = "none"
                   /\ lastDecryptedAverage'[r] = AverageAtRequest(pendingDecryptionHandles[r])]_vars

\* The handles that are or have been encryptedTotal: the first input handle
\* and the results of FHE.add.
TotalHandles ==
    {h \in DOMAIN ciphertexts :
        \/ ciphertexts[h].op = "add"
        \/ h = encryptedTotal
        \/ \E g \in DOMAIN ciphertexts : ciphertexts[g].op = "add" /\ ciphertexts[g].lhs = h}

\* The account whose submission produced total handle h: the sender of the
\* input that h is, or that was added last to give h.
SubmitterOf(h) ==
    IF ciphertexts[h].op = "add" THEN ciphertexts[ciphertexts[h].rhs].rhs
    ELSE ciphertexts[h].rhs

\* C30: with count >= 2 the current encryptedTotal is a sum and the one
\* principal allowed on it is the sender of the latest accepted submission; a
\* principal is allowed on a total handle only if its own submission produced
\* that handle, so earlier submitters keep a permission on a superseded
\* total only; a principal that never submitted is allowed on average handles
\* only.
C30_OnlyLatestSubmitterHoldsTotal ==
    /\ count >= 2
          => /\ ciphertexts[encryptedTotal].op = "add"
             /\ {p \in Principals : IsAllowed(encryptedTotal, p)} = {SubmitterOf(encryptedTotal)}
             /\ Succeeded(lastCall, "addSalary") => lastCall.sender = SubmitterOf(encryptedTotal)
    /\ \A p \in Principals : \A h \in TotalHandles :
          IsAllowed(h, p) => (hasSubmitted[p] /\ SubmitterOf(h) = p)
    /\ \A p \in Principals \ Submitted : \A h \in DOMAIN ciphertexts :
          IsAllowed(h, p) => h \in AverageHandles

\* C30 witness: two submissions were accepted; the first submitter is allowed
\* on the superseded total and not on the current one, and has requested an
\* average of the current one.
C30_Witness ==
    /\ count = 2
    /\ \E p \in Principals :
          /\ IsAllowed(ciphertexts[encryptedTotal].lhs, p)
          /\ ~IsAllowed(encryptedTotal, p)
          /\ pendingDecryptionHandles[p] # NoHandle
          /\ ciphertexts[pendingDecryptionHandles[p]].lhs = encryptedTotal

====
